---- MODULE Spec2Model ----
(***************************************************************************)
(* Model of UsersService (src/src/services/UsersService.ts): an account    *)
(* service over a document store (Firestore collection "users") and a      *)
(* cache (Redis key 'users').                                              *)
(*                                                                         *)
(* Every await of a handler is one atomic step on the shared store or      *)
(* cache.  A request's first step is taken when the request is made; the   *)
(* later steps are taken by the process that made it, interleaved freely   *)
(* with the steps of other requests (Spec) or not at all (SpecSeq).        *)
(***************************************************************************)
EXTENDS Integers, Sequences, FiniteSets, TLC

(* ---- bounds ---- *)
\* request slots, identifiers requests are made for, events (requests made
\* and clock ticks together), clock ticks, and the seconds one tick stands
\* for: time passes in stretches of an hour and a half, longer than the
\* expiry of the cached listing
NumProcs == 2
MaxIds   == 2
MaxOps   == 3
MaxTicks == 1
TickStep == 5400

(* ---- program constants ---- *)
\* line 66: the expiry of the cached listing, in seconds
TTL      == 3600

Procs     == 1..NumProcs
Ids       == 1..MaxIds
Emails    == {"e1", "e2"}
Passwords == {"p1", "p2"}

VARIABLES
  store,    \* the users collection: document id -> document data
  nextId,   \* the next id db.users.doc() hands out
  cache,    \* the cache slot of key 'users'
  clock,    \* the time, in seconds
  pc,       \* per request slot: the await the request is suspended at
  req,      \* per request slot: the operation and its arguments
  users,    \* per request slot: the local `users` of getUsers
  calls,    \* per request slot: the store and cache calls issued so far
  arg,      \* per request slot: the document handed to the pending write
  started,  \* the number of requests made and of clock ticks so far
  out,      \* the request that returned in the step just taken, if one did:
            \* its arguments, its calls and its response
  hist,     \* what the requests completed most recently add up to
  filled    \* the listing the cache was last populated with, while it stands

vars == <<store, nextId, cache, clock, pc, req, users, calls, arg,
          started, out, hist, filled>>

(* ---- collaborators that live outside src/ ---- *)

\* utils/password encryptPassword: the stored form of a secret.
encryptPassword(p) ==
  CASE p = "p1" -> "hash(p1)"
    [] p = "p2" -> "hash(p2)"
    [] OTHER    -> "hash(?)"

IsHash(x) == x \in {encryptPassword(p) : p \in Passwords}

\* utils/password comparePasswords: verifies a plaintext against a stored hash.
comparePasswords(p, h) == IsHash(h) /\ h = encryptPassword(p)

\* utils/formatData formatUserData: the public projection of a record.
formatUserData(d) == [k \in (DOMAIN d) \ {"password"} |-> d[k]]

\* utils/jwt generateToken: the token carries the identity and the role.
generateToken(id, role) == [sub |-> id, role |-> role]

\* utils/firestore-helpers firestoreTimestamp.now()
now == clock

(* ---- language-level helpers ---- *)

\* object spread {...a, ...b}: the later operand wins
Spread(a, b) ==
  [k \in (DOMAIN a) \cup (DOMAIN b) |-> IF k \in DOMAIN b THEN b[k] ELSE a[k]]

\* JSON.stringify / JSON.parse of the listing
JSONstringify(u) == [json |-> u]
JSONparse(s)     == s.json

NoData == [none |-> TRUE]
NoResp == [status |-> 0, message |-> "", data |-> NoData]
NoReq  == [op |-> "none"]
\* the outcome of a request whose awaited call rejected: no response
Thrown == [status |-> 0, message |-> "thrown", data |-> NoData]
NoOut  == [req |-> NoReq, calls |-> <<>>, resp |-> NoResp]

NoEntry == [present |-> FALSE]

NotFilled == [valid |-> FALSE]

\* redisClient.get('users'): null when the key is absent
CacheHit == cache.present

\* db.users.where('email', '==', e).get(): the ids of the matching documents
QueryByEmail(e) == {i \in DOMAIN store : store[i].email = e}

\* db.users.get() followed by the loop of getUsers: one entry per document,
\* in document order
RECURSIVE ListFrom(_)
ListFrom(i) ==
  IF i >= nextId THEN <<>>
  ELSE IF i \in DOMAIN store
       THEN <<Spread([id |-> i], formatUserData(store[i]))>> \o ListFrom(i + 1)
       ELSE ListFrom(i + 1)

Listing == ListFrom(1)

ListedIds(l) == {l[j].id : j \in 1..Len(l)}

NoHist ==
  [k |-> "other", id |-> 0, email |-> "", userData |-> <<>>, at |-> 0,
   done |-> 0]

\* the sequences of completed requests that are kept track of: a listing
\* served, then an account deleted, then a listing served again; an account
\* deleted, then listings served; an account created (its payload, the
\* identifier it got, the time its document carries and the time the write
\* was done), then a createUser of the same email answered, or the account
\* read by its identifier, or a listing served.  A request that threw ends
\* every sequence.  a is the document the completing request wrote.
Follow(h, rq, r, a) ==
  IF rq.op = "getUsers" /\ r.status = 200
  THEN IF h.k = "listedDeleted"
       THEN [NoHist EXCEPT !.k = "listedDeletedListed", !.id = h.id]
       ELSE IF h.k \in {"deleted", "deletedListed", "listedDeletedListed"}
       THEN [NoHist EXCEPT !.k = "deletedListed", !.id = h.id]
       ELSE IF h.k = "created"
       THEN [h EXCEPT !.k = "createdListed"]
       ELSE [NoHist EXCEPT !.k = "listed"]
  ELSE IF rq.op = "deleteUserById" /\ r.status = 200
  THEN IF h.k \in {"listed", "listedDeletedListed", "deletedListed",
                   "createdListed"}
       THEN [NoHist EXCEPT !.k = "listedDeleted", !.id = rq.userId]
       ELSE [NoHist EXCEPT !.k = "deleted", !.id = rq.userId]
  ELSE IF rq.op = "createUser" /\ r.status \in {201, 409}
          /\ h.k \in {"created", "createdAgain"}
          /\ h.email = rq.userData.email
  THEN [NoHist EXCEPT !.k = "createdAgain", !.email = h.email]
  ELSE IF rq.op = "createUser" /\ r.status = 201
  THEN [k |-> "created", id |-> nextId, email |-> rq.userData.email,
        userData |-> rq.userData, at |-> a.createdAt, done |-> clock]
  ELSE IF rq.op = "getUserById" /\ r.status = 200 /\ h.k = "created"
          /\ rq.userId = h.id
  THEN [h EXCEPT !.k = "createdRead"]
  ELSE NoHist

(* ---- the documents handed to the writes ---- *)

\* NewUser with the spread last: what the payload names wins
NewUserPayloadWins(userData) ==
  Spread([password  |-> encryptPassword(userData.password),
          role      |-> "member",
          createdAt |-> now,
          updatedAt |-> now], userData)

\* lines 24-31: the document written for userData
NewUser(userData) ==
  Spread(userData, [password  |-> encryptPassword(userData.password),
                    role      |-> "member",
                    createdAt |-> now,
                    updatedAt |-> now])

\* UpdateDoc with the spread last: an updatedAt of the payload wins
UpdateDocPayloadWins(userData) == Spread([updatedAt |-> now], userData)

\* lines 139-142: the fields handed to update() by updateUserById
UpdateDoc(userData) == Spread(userData, [updatedAt |-> now])

\* lines 188-193: the fields handed to update() by changePassword
PasswordDoc(newPassword) ==
  [password |-> encryptPassword(newPassword), updatedAt |-> now]

NoArg == <<>>

\* the argument of the call a request suspends at is evaluated as the call
\* is issued, before it is awaited: the document of a write carries the time
\* of that moment
PendingArg(rq, label) ==
  CASE label = "cr_set"    -> NewUser(rq.userData)
    [] label = "up_update" -> UpdateDoc(rq.userData)
    [] label = "cp_update" -> PasswordDoc(rq.newPassword)
    [] OTHER               -> NoArg

Quiet == \A q \in Procs : pc[q] = "idle"

\* a request takes the first free slot: which free slot runs it is immaterial
CanStart(p) ==
  /\ pc[p] = "idle"
  /\ \A q \in Procs : q < p => pc[q] # "idle"
  /\ started < MaxOps

\* the request returns r (or throws: r is Thrown) having issued the calls cs
Finish(p, rq, cs, r) ==
  /\ pc' = [pc EXCEPT ![p] = "idle"]
  /\ req' = [req EXCEPT ![p] = NoReq]
  /\ calls' = [calls EXCEPT ![p] = <<>>]
  /\ users' = [users EXCEPT ![p] = <<>>]
  /\ arg' = [arg EXCEPT ![p] = NoArg]
  /\ out' = [req |-> rq, calls |-> cs, resp |-> r]
  /\ hist' = Follow(hist, rq, r, arg[p])

\* the request suspends at its next await having issued the calls cs
Suspend(p, rq, cs, label) ==
  /\ pc' = [pc EXCEPT ![p] = label]
  /\ req' = [req EXCEPT ![p] = rq]
  /\ calls' = [calls EXCEPT ![p] = cs]
  /\ arg' = [arg EXCEPT ![p] = PendingArg(rq, label)]
  /\ out' = NoOut
  /\ UNCHANGED hist

\* the account the collection may hold when the service is constructed: a
\* document as createUser writes it
SeedUser ==
  [email |-> "e1", password |-> encryptPassword("p1"), role |-> "member",
   createdAt |-> 0, updatedAt |-> 0]

\* the service is constructed over a collection that is empty or holds an
\* account already; the cache starts cold
Init ==
  /\ \/ store = <<>> /\ nextId = 1
     \/ store = <<SeedUser>> /\ nextId = 2
  /\ cache = NoEntry
  /\ clock = 0
  /\ pc = [p \in Procs |-> "idle"]
  /\ req = [p \in Procs |-> NoReq]
  /\ users = [p \in Procs |-> <<>>]
  /\ calls = [p \in Procs |-> <<>>]
  /\ arg = [p \in Procs |-> NoArg]
  /\ started = 0
  /\ out = NoOut
  /\ hist = NoHist
  /\ filled = NotFilled

\* the first step of a request
First(p) ==
  /\ CanStart(p)
  /\ started' = started + 1

\* a later step of a request: the await it is suspended at completes
Resume(p, label) ==
  /\ pc[p] = label
  /\ UNCHANGED started

(* ---- createUser ---- *)

\* the payloads createUser is given: one names a role of its own
CreateInputs ==
  {[email |-> "e1", password |-> "p1", role |-> "admin"],
   [email |-> "e2", password |-> "p1"]}

\* CreateUserQuery without the emptiness test: the write always follows
CreateUserQueryNoCheck(p, userData) ==
  /\ First(p)
  /\ Suspend(p, [op |-> "createUser", userData |-> userData],
             <<"store.query">>, "cr_set")
  /\ UNCHANGED <<store, nextId, cache, clock, users, filled>>

\* lines 20-23 and 37-42: the existence query, and the 409 answer
CreateUserQuery(p, userData) ==
  /\ First(p)
  /\ LET rq == ([op |-> "createUser", userData |-> userData])
         cs == <<"store.query">>
     IN IF QueryByEmail(userData.email) = {}
        THEN Suspend(p, rq, cs, "cr_set")
        ELSE Finish(p, rq, cs, [status |-> 409,
                                message |-> "User already exists",
                                data |-> NoData])
  /\ UNCHANGED <<store, nextId, cache, clock, users, filled>>

\* CreateUserSet that also invalidates the cached listing
CreateUserSetInvalidating(p) ==
  /\ Resume(p, "cr_set")
  /\ store' = [i \in (DOMAIN store) \cup {nextId} |->
                 IF i = nextId THEN arg[p] ELSE store[i]]
  /\ nextId' = nextId + 1
  /\ cache' = NoEntry
  /\ filled' = NotFilled
  /\ Finish(p, req[p], <<"store.query", "store.set", "cache.del">>,
            [status |-> 201, message |-> "User created successfully!",
             data |-> NoData])
  /\ UNCHANGED clock

\* CreateUserSet that looks the email up again as it writes
CreateUserSetRechecking(p) ==
  /\ Resume(p, "cr_set")
  /\ IF QueryByEmail(req[p].userData.email) = {}
     THEN /\ store' = [i \in (DOMAIN store) \cup {nextId} |->
                         IF i = nextId THEN arg[p]
                         ELSE store[i]]
          /\ nextId' = nextId + 1
          /\ Finish(p, req[p], Append(calls[p], "store.set"),
                    [status |-> 201, message |-> "User created successfully!",
                     data |-> NoData])
     ELSE /\ Finish(p, req[p], Append(calls[p], "store.set"),
                    [status |-> 409, message |-> "User already exists",
                     data |-> NoData])
          /\ UNCHANGED <<store, nextId>>
  /\ UNCHANGED <<cache, clock, filled>>

\* lines 24-36: the write of the new document, and the 201 answer
CreateUserSet(p) ==
  /\ Resume(p, "cr_set")
  /\ store' = [i \in (DOMAIN store) \cup {nextId} |->
                 IF i = nextId THEN arg[p] ELSE store[i]]
  /\ nextId' = nextId + 1
  /\ Finish(p, req[p], Append(calls[p], "store.set"),
            [status |-> 201, message |-> "User created successfully!",
             data |-> NoData])
  /\ UNCHANGED <<cache, clock, filled>>

(* ---- getUsers ---- *)

\* GetUsersCacheGet that takes the miss path whatever the cache holds
GetUsersCacheGetAlwaysMiss(p) ==
  /\ First(p)
  /\ Suspend(p, [op |-> "getUsers"], <<"cache.get">>, "gu_storeget")
  /\ UNCHANGED <<store, nextId, cache, clock, users, filled>>

\* lines 49-52 and 70-74: the cache read, and the answer on a hit
GetUsersCacheGet(p) ==
  /\ First(p)
  /\ LET rq == ([op |-> "getUsers"])
         cs == <<"cache.get">>
     IN IF CacheHit
        THEN Finish(p, rq, cs, [status |-> 200,
                                message |-> "Users retrieved successfully!",
                                data |-> JSONparse(cache.value)])
        ELSE Suspend(p, rq, cs, "gu_storeget") /\ UNCHANGED users
  /\ UNCHANGED <<store, nextId, cache, clock, filled>>

\* GetUsersStoreGet that pushes the documents as they are stored
GetUsersStoreGetUnprojected(p) ==
  /\ Resume(p, "gu_storeget")
  /\ users' = [users EXCEPT ![p] =
                 [j \in 1..Len(Listing) |->
                    Spread([id |-> Listing[j].id], store[Listing[j].id])]]
  /\ Suspend(p, req[p], Append(calls[p], "store.get"), "gu_cacheset")
  /\ UNCHANGED <<store, nextId, cache, clock, filled>>

\* lines 54-63: the read of every document and the projection loop
GetUsersStoreGet(p) ==
  /\ Resume(p, "gu_storeget")
  /\ users' = [users EXCEPT ![p] = Listing]
  /\ Suspend(p, req[p], Append(calls[p], "store.get"), "gu_cacheset")
  /\ UNCHANGED <<store, nextId, cache, clock, filled>>

\* GetUsersCacheSet that writes what the store holds at the time of the write
GetUsersCacheSetFresh(p) ==
  /\ Resume(p, "gu_cacheset")
  /\ cache' = [present |-> TRUE, value |-> JSONstringify(Listing),
               expiresAt |-> clock + TTL]
  /\ filled' = [valid |-> TRUE, listing |-> Listing]
  /\ Finish(p, req[p], Append(calls[p], "cache.set"),
            [status |-> 200, message |-> "Users retrieved successfully!",
             data |-> users[p]])
  /\ UNCHANGED <<store, nextId, clock>>

\* lines 65-74: the cache write with its expiry, and the answer on a miss
GetUsersCacheSet(p) ==
  /\ Resume(p, "gu_cacheset")
  /\ cache' = [present |-> TRUE, value |-> JSONstringify(users[p]),
               expiresAt |-> clock + TTL]
  /\ filled' = [valid |-> TRUE, listing |-> users[p]]
  /\ Finish(p, req[p], Append(calls[p], "cache.set"),
            [status |-> 200, message |-> "Users retrieved successfully!",
             data |-> users[p]])
  /\ UNCHANGED <<store, nextId, clock>>

(* ---- login ---- *)

\* lines 83-86
LoginNoAccount ==
  [status |-> 401, message |-> "Unauthorized", data |-> NoData]

\* lines 107-110
LoginBadPassword ==
  [status |-> 401, message |-> "Unauthorized!", data |-> NoData]

\* lines 94-105
LoginOk(id, d) ==
  [status |-> 200, message |-> "User login successfully!",
   data |-> [user  |-> formatUserData(d),
             token |-> generateToken(id, formatUserData(d).role)]]

\* LoginAnswer without the password verification
LoginAnswerNoVerify(id, d, password) == LoginOk(id, d)

\* lines 88-111: docs[0] is the document d of identifier id
LoginAnswer(id, d, password) ==
  IF comparePasswords(password, d.password)
  THEN LoginOk(id, d)
  ELSE LoginBadPassword

\* Login that drops the cached listing on its way
LoginDroppingCache(p, email, password) ==
  /\ First(p)
  /\ LET rq == [op |-> "login", email |-> email, password |-> password]
         cs == <<"store.query", "cache.del">>
     IN IF QueryByEmail(email) = {}
        THEN Finish(p, rq, cs, LoginNoAccount)
        ELSE \E id \in QueryByEmail(email) :
               Finish(p, rq, cs, LoginAnswer(id, store[id], password))
  /\ cache' = NoEntry
  /\ filled' = NotFilled
  /\ UNCHANGED <<store, nextId, clock>>

\* lines 77-113: one query by email; docs[0] is any of the matches
Login(p, email, password) ==
  /\ First(p)
  /\ LET rq == ([op |-> "login", email |-> email,
                       password |-> password])
         cs == <<"store.query">>
     IN IF QueryByEmail(email) = {}
        THEN Finish(p, rq, cs, LoginNoAccount)
        ELSE \E id \in QueryByEmail(email) :
               Finish(p, rq, cs, LoginAnswer(id, store[id], password))
  /\ UNCHANGED <<store, nextId, cache, clock, filled>>

(* ---- getUserById ---- *)

\* db.users.doc(id).get().data() through formatUserData: a missing document
\* gives the empty projection
Profile(userId) ==
  Spread([id |-> userId],
         IF userId \in DOMAIN store THEN formatUserData(store[userId])
         ELSE <<>>)

\* lines 115-127
GetUserById(p, userId) ==
  /\ First(p)
  /\ Finish(p, ([op |-> "getUserById", userId |-> userId]),
            <<"store.get">>,
            [status |-> 200, message |-> "User retrieved successfully!",
             data |-> Profile(userId)])
  /\ UNCHANGED <<store, nextId, cache, clock, filled>>

\* lines 133-136, 161-164, 182-185
NotFound == [status |-> 404, message |-> "User not found", data |-> NoData]

(* ---- updateUserById ---- *)

\* the payloads updateUserById is given: any subset of the fields
UpdateInputs ==
  {[email |-> "e1", password |-> "p2"], [role |-> "admin", updatedAt |-> 0]}

\* lines 130-137: the existence check, and the 404 answer
UpdateUserGet(p, userId, userData) ==
  /\ First(p)
  /\ LET rq == ([op |-> "updateUserById", userId |-> userId,
                       userData |-> userData])
         cs == <<"store.get">>
     IN IF userId \in DOMAIN store
        THEN Suspend(p, rq, cs, "up_update")
        ELSE Finish(p, rq, cs, NotFound)
  /\ UNCHANGED <<store, nextId, cache, clock, users, filled>>


\* lines 139-142: the merge of the supplied fields; update() of a document
\* that is gone rejects
UpdateUserUpdate(p) ==
  /\ Resume(p, "up_update")
  /\ IF req[p].userId \in DOMAIN store
     THEN /\ store' = [store EXCEPT ![req[p].userId] =
                         Spread(@, arg[p])]
          /\ Suspend(p, req[p], Append(calls[p], "store.update"), "up_reget")
          /\ UNCHANGED users
     ELSE /\ Finish(p, req[p], Append(calls[p], "store.update"), Thrown)
          /\ UNCHANGED store
  /\ UNCHANGED <<nextId, cache, clock, filled>>

\* lines 144-154: the second read, and the 200 answer
UpdateUserReget(p) ==
  /\ Resume(p, "up_reget")
  /\ Finish(p, req[p], Append(calls[p], "store.get"),
            [status |-> 200, message |-> "User updated successfully!",
             data |-> Profile(req[p].userId)])
  /\ UNCHANGED <<store, nextId, cache, clock, filled>>

(* ---- deleteUserById ---- *)

\* DeleteUserGet without the existence test: the delete always follows
DeleteUserGetNoCheck(p, userId) ==
  /\ First(p)
  /\ Suspend(p, [op |-> "deleteUserById", userId |-> userId],
             <<"store.get">>, "de_delete")
  /\ UNCHANGED <<store, nextId, cache, clock, users, filled>>

\* lines 158-165: the existence check, and the 404 answer
DeleteUserGet(p, userId) ==
  /\ First(p)
  /\ LET rq == ([op |-> "deleteUserById", userId |-> userId])
         cs == <<"store.get">>
     IN IF userId \in DOMAIN store
        THEN Suspend(p, rq, cs, "de_delete")
        ELSE Finish(p, rq, cs, NotFound)
  /\ UNCHANGED <<store, nextId, cache, clock, users, filled>>

\* DeleteUserDelete that invalidates the cache along with the store delete
DeleteUserDeleteInvalidating(p) ==
  /\ Resume(p, "de_delete")
  /\ store' = [i \in (DOMAIN store) \ {req[p].userId} |-> store[i]]
  /\ cache' = NoEntry
  /\ filled' = NotFilled
  /\ Suspend(p, req[p], <<"store.get", "cache.del", "store.delete">>,
             "de_cachedel")
  /\ UNCHANGED <<nextId, clock, users>>

\* DeleteUserDelete that goes on without removing the document
DeleteUserDeleteKeepsDocument(p) ==
  /\ Resume(p, "de_delete")
  /\ Suspend(p, req[p], Append(calls[p], "store.delete"), "de_cachedel")
  /\ UNCHANGED <<store, nextId, cache, clock, users, filled>>

\* line 167: delete() of a document that is gone succeeds
DeleteUserDelete(p) ==
  /\ Resume(p, "de_delete")
  /\ store' = [i \in (DOMAIN store) \ {req[p].userId} |-> store[i]]
  /\ Suspend(p, req[p], Append(calls[p], "store.delete"), "de_cachedel")
  /\ UNCHANGED <<nextId, cache, clock, users, filled>>

\* DeleteUserCacheDel that answers without removing the cache key
DeleteUserCacheDelKeepsEntry(p) ==
  /\ Resume(p, "de_cachedel")
  /\ Finish(p, req[p], Append(calls[p], "cache.del"),
            [status |-> 200, message |-> "User deleted successfully!",
             data |-> NoData])
  /\ UNCHANGED <<store, nextId, cache, clock, filled>>

\* lines 169-175: the invalidation, and the 200 answer
DeleteUserCacheDel(p) ==
  /\ Resume(p, "de_cachedel")
  /\ cache' = NoEntry
  /\ filled' = NotFilled
  /\ Finish(p, req[p], Append(calls[p], "cache.del"),
            [status |-> 200, message |-> "User deleted successfully!",
             data |-> NoData])
  /\ UNCHANGED <<store, nextId, clock>>

(* ---- changePassword ---- *)

\* lines 179-186: the existence check, and the 404 answer
ChangePasswordGet(p, userId, newPassword) ==
  /\ First(p)
  /\ LET rq == ([op |-> "changePassword", userId |-> userId,
                       newPassword |-> newPassword])
         cs == <<"store.get">>
     IN IF userId \in DOMAIN store
        THEN Suspend(p, rq, cs, "cp_update")
        ELSE Finish(p, rq, cs, NotFound)
  /\ UNCHANGED <<store, nextId, cache, clock, users, filled>>

\* lines 188-198: the write of the new hash, and the 200 answer; update() of
\* a document that is gone rejects
ChangePasswordUpdate(p) ==
  /\ Resume(p, "cp_update")
  /\ IF req[p].userId \in DOMAIN store
     THEN /\ store' = [store EXCEPT ![req[p].userId] =
                         Spread(@, arg[p])]
          /\ Finish(p, req[p], Append(calls[p], "store.update"),
                    [status |-> 200,
                     message |-> "Password changed successfully!",
                     data |-> NoData])
     ELSE /\ Finish(p, req[p], Append(calls[p], "store.update"), Thrown)
          /\ UNCHANGED store
  /\ UNCHANGED <<nextId, cache, clock, filled>>

(* ---- the environment ---- *)

\* the call a suspended request is waiting for
Pending(label) ==
  CASE label = "cr_set"      -> "store.set"
    [] label = "gu_storeget" -> "store.get"
    [] label = "gu_cacheset" -> "cache.set"
    [] label = "up_update"   -> "store.update"
    [] label = "up_reget"    -> "store.get"
    [] label = "de_delete"   -> "store.delete"
    [] label = "de_cachedel" -> "cache.del"
    [] label = "cp_update"   -> "store.update"

\* the awaited store or cache call rejects: nothing catches it, the rest of
\* the handler does not run
Fault(p) ==
  /\ pc[p] # "idle"
  /\ Finish(p, req[p], Append(calls[p], Pending(pc[p])), Thrown)
  /\ UNCHANGED <<store, nextId, cache, clock, started, filled>>

\* the requests that are made
Requests ==
  {[op |-> "createUser", userData |-> d] : d \in CreateInputs}
  \cup {[op |-> "getUsers"]}
  \cup {[op |-> "login", email |-> e, password |-> w] :
          e \in Emails, w \in Passwords}
  \cup {[op |-> "getUserById", userId |-> i] : i \in Ids}
  \cup {[op |-> "updateUserById", userId |-> i, userData |-> d] :
          i \in Ids, d \in UpdateInputs}
  \cup {[op |-> "deleteUserById", userId |-> i] : i \in Ids}
  \cup {[op |-> "changePassword", userId |-> i, newPassword |-> "p2"] :
          i \in Ids}

\* the first call a method awaits
FirstCall(op) ==
  CASE op = "createUser" -> "store.query"
    [] op = "getUsers"   -> "cache.get"
    [] op = "login"      -> "store.query"
    [] OTHER             -> "store.get"

\* the first call a request awaits rejects: the request throws having
\* issued that call alone
FaultFirst(p, rq) ==
  /\ First(p)
  /\ Finish(p, rq, <<FirstCall(rq.op)>>, Thrown)
  /\ UNCHANGED <<store, nextId, cache, clock, filled>>

\* Tick that leaves an entry in the cache past its expiry
TickNoExpiry ==
  /\ clock + TickStep <= MaxTicks * TickStep
  /\ started < MaxOps
  /\ started' = started + 1
  /\ clock' = clock + TickStep
  /\ out' = NoOut
  /\ UNCHANGED <<store, nextId, cache, filled, pc, req, users, calls, arg,
                 hist>>

\* time passes, which counts as an event; the cache drops the entry once
\* its expiry is reached
Tick ==
  /\ clock + TickStep <= MaxTicks * TickStep
  /\ started < MaxOps
  /\ started' = started + 1
  /\ clock' = clock + TickStep
  /\ IF cache.present /\ cache.expiresAt <= clock + TickStep
     THEN cache' = NoEntry /\ filled' = NotFilled
     ELSE UNCHANGED <<cache, filled>>
  /\ out' = NoOut
  /\ UNCHANGED <<store, nextId, pc, req, users, calls, arg, hist>>

\* the cache loses the entry (eviction, restart)
CacheWipe ==
  /\ cache.present
  /\ cache' = NoEntry
  /\ filled' = NotFilled
  /\ out' = NoOut
  /\ UNCHANGED <<store, nextId, clock, pc, req, users, calls, arg, started,
                 hist>>

(* ---- specifications ---- *)

Next ==
  \/ \E p \in Procs, d \in CreateInputs : CreateUserQuery(p, d)
  \/ \E p \in Procs : CreateUserSet(p)
  \/ \E p \in Procs : GetUsersCacheGet(p)
  \/ \E p \in Procs : GetUsersStoreGet(p)
  \/ \E p \in Procs : GetUsersCacheSet(p)
  \/ \E p \in Procs, e \in Emails, w \in Passwords : Login(p, e, w)
  \/ \E p \in Procs, i \in Ids : GetUserById(p, i)
  \/ \E p \in Procs, i \in Ids, d \in UpdateInputs : UpdateUserGet(p, i, d)
  \/ \E p \in Procs : UpdateUserUpdate(p)
  \/ \E p \in Procs : UpdateUserReget(p)
  \/ \E p \in Procs, i \in Ids : DeleteUserGet(p, i)
  \/ \E p \in Procs : DeleteUserDelete(p)
  \/ \E p \in Procs : DeleteUserCacheDel(p)
  \/ \E p \in Procs, i \in Ids : ChangePasswordGet(p, i, "p2")
  \/ \E p \in Procs : ChangePasswordUpdate(p)
  \/ \E p \in Procs : Fault(p)
  \/ \E p \in Procs, rq \in Requests : FaultFirst(p, rq)
  \/ Tick
  \/ CacheWipe

\* requests overlap freely
Spec == Init /\ [][Next]_vars

\* no request is made while another is in flight
NextSeq ==
  \/ \E p \in Procs, d \in CreateInputs : Quiet /\ CreateUserQuery(p, d)
  \/ \E p \in Procs : CreateUserSet(p)
  \/ \E p \in Procs : Quiet /\ GetUsersCacheGet(p)
  \/ \E p \in Procs : GetUsersStoreGet(p)
  \/ \E p \in Procs : GetUsersCacheSet(p)
  \/ \E p \in Procs, e \in Emails, w \in Passwords : Quiet /\ Login(p, e, w)
  \/ \E p \in Procs, i \in Ids : Quiet /\ GetUserById(p, i)
  \/ \E p \in Procs, i \in Ids, d \in UpdateInputs :
       Quiet /\ UpdateUserGet(p, i, d)
  \/ \E p \in Procs : UpdateUserUpdate(p)
  \/ \E p \in Procs : UpdateUserReget(p)
  \/ \E p \in Procs, i \in Ids : Quiet /\ DeleteUserGet(p, i)
  \/ \E p \in Procs : DeleteUserDelete(p)
  \/ \E p \in Procs : DeleteUserCacheDel(p)
  \/ \E p \in Procs, i \in Ids : Quiet /\ ChangePasswordGet(p, i, "p2")
  \/ \E p \in Procs : ChangePasswordUpdate(p)
  \/ \E p \in Procs : Fault(p)
  \/ \E p \in Procs, rq \in Requests : Quiet /\ FaultFirst(p, rq)
  \/ Tick
  \/ CacheWipe

SpecSeq == Init /\ [][NextSeq]_vars

(* ---- what a step did ---- *)

\* a request returned (or threw) in this step
Completed ==
  \/ \E p \in Procs : pc[p] # "idle" /\ pc'[p] = "idle"
  \/ started' = started + 1 /\ pc' = pc /\ clock' = clock

\* the request made in this step, if one was
NewReqOf ==
  IF pc' = pc THEN out'.req
  ELSE req'[CHOOSE p \in Procs : pc'[p] # pc[p]]

\* a request of operation o was made in this step
Made(o) == started' = started + 1 /\ clock' = clock /\ NewReqOf.op = o

\* slot p took a step of its request of operation o
Stepped(p, o) ==
  \/ Made(o) /\ pc[p] = "idle" /\ (pc' = pc \/ pc'[p] # pc[p])
  \/ pc[p] # "idle" /\ req[p].op = o /\ pc'[p] # pc[p]

IsCacheCall(c) == c \in {"cache.get", "cache.set", "cache.del"}

CallsOf(o) == {o.calls[j] : j \in 1..Len(o.calls)}

(* ---- C1 ---- *)

\* C1: a login that fails for want of an account and a login that fails on
\* the password return the identical response, status and message: of two
\* failed logins completed one after the other, the second's response equals
\* the first's.
C1_FailedLoginsAlike ==
  [][(/\ Completed
      /\ out.req.op = "login" /\ out.resp.status = 401
      /\ out'.req.op = "login" /\ out'.resp.status = 401)
     => out'.resp = out.resp]_vars

(* ---- C2 ---- *)

\* C2: with no overlapping requests, a getUsers that follows a successful
\* deleteUserById, itself following a served getUsers, reads the store and
\* returns a listing without the deleted account.
C2_DeleteThenListing ==
  [][(/\ Completed
      /\ hist.k = "listedDeleted"
      /\ out'.req.op = "getUsers" /\ out'.resp.status = 200)
     => /\ "store.get" \in CallsOf(out')
        /\ hist.id \notin ListedIds(out'.resp.data)]_vars

\* the second getUsers of the sequence has returned, having read the store
C2_Witness ==
  /\ hist.k = "listedDeletedListed"
  /\ out.req.op = "getUsers" /\ out.resp.status = 200
  /\ out.calls = <<"cache.get", "store.get", "cache.set">>
  /\ hist.id \notin ListedIds(out.resp.data)
  /\ hist.id \notin DOMAIN store

(* ---- C3 ---- *)

\* C3: a getUsers that finds the cache entry present (its cache read does
\* not reject) returns at once the deserialized entry, which is the listing
\* the populating getUsers returned, with the cache read as its only call:
\* no store read, no cache write.
C3_HitServesCache ==
  [][(Made("getUsers") /\ cache.present /\ out'.resp # Thrown)
     => /\ pc' = pc
        /\ out'.resp.status = 200
        /\ out'.resp.data = JSONparse(cache.value)
        /\ filled.valid /\ out'.resp.data = filled.listing
        /\ out'.calls = <<"cache.get">>
        /\ cache' = cache /\ store' = store]_vars

\* a getUsers served a non-empty listing from the cache alone
C3_Witness ==
  /\ out.req.op = "getUsers" /\ out.resp.status = 200
  /\ out.calls = <<"cache.get">>
  /\ filled.valid /\ out.resp.data = filled.listing
  /\ Len(out.resp.data) > 0

(* ---- C4 ---- *)

\* C4: the password field of every persisted account is a hash the hashing
\* primitive produced, never a plaintext secret.
C4_StoredPasswordIsHash ==
  \A i \in DOMAIN store : IsHash(store[i].password)

(* ---- C5 ---- *)

MissingIdOps == {"updateUserById", "deleteUserById", "changePassword"}

\* C5: updateUserById, deleteUserById and changePassword of an id the store
\* does not hold return 404 after the existence check alone (a get that
\* answers), and leave the store and the cached listing as they were.
C5_MissingIdIsNotFound ==
  [][\A o \in MissingIdOps :
       (Made(o) /\ NewReqOf.userId \notin DOMAIN store /\ out'.resp # Thrown)
       => /\ pc' = pc
          /\ out'.resp = NotFound
          /\ out'.calls = <<"store.get">>
          /\ store' = store /\ cache' = cache /\ filled' = filled]_vars

\* a delete of a missing id answered 404 and the warm cache stands
C5_Witness ==
  /\ out.req.op = "deleteUserById" /\ out.resp.status = 404
  /\ out.req.userId \notin DOMAIN store
  /\ out.calls = <<"store.get">>
  /\ cache.present

(* ---- C6 ---- *)

\* the number of accounts of email e once the step is taken
AccountsAfter(e) == Cardinality({i \in DOMAIN store' : store'[i].email = e})

\* C6: with no overlapping requests, a createUser that writes its record
\* found no account of that email, returns 201 and leaves exactly one; a
\* createUser of the same email completed next (its query answering)
\* returns 409 and leaves exactly one.
C6_SequentialDuplicate ==
  [][/\ \A p \in Procs :
          (pc[p] = "cr_set" /\ pc'[p] = "idle" /\ out'.resp # Thrown)
          => /\ QueryByEmail(req[p].userData.email) = {}
             /\ out'.resp.status = 201
             /\ AccountsAfter(req[p].userData.email) = 1
     /\ (/\ Completed
         /\ hist.k = "created"
         /\ out'.req.op = "createUser" /\ out'.resp # Thrown
         /\ out'.req.userData.email = hist.email)
        => /\ out'.resp.status = 409
           /\ AccountsAfter(hist.email) = 1]_vars

\* the second createUser of an email was refused and one record has it
C6_Witness ==
  /\ hist.k = "createdAgain"
  /\ out.req.op = "createUser" /\ out.req.userData.email = hist.email
  /\ out.resp.status = 409
  /\ Cardinality(QueryByEmail(hist.email)) = 1

(* ---- C7 ---- *)

\* the response carries a token
IssuesToken(o) ==
  IF o.req.op = "getUsers" /\ o.resp.status = 200
  THEN \E j \in 1..Len(o.resp.data) : "token" \in DOMAIN o.resp.data[j]
  ELSE "token" \in DOMAIN o.resp.data

\* C7: a response carries a token only if it is the 200 response of a login
\* whose password verified against a stored account of that email, and the
\* token then carries that account's identifier and stored role.
C7_TokenOnlyAfterVerification ==
  [][Completed
     => /\ IssuesToken(out')
           => /\ out'.req.op = "login" /\ out'.resp.status = 200
              /\ \E id \in QueryByEmail(out'.req.email) :
                   /\ comparePasswords(out'.req.password, store[id].password)
                   /\ out'.resp.data.token.sub = id
                   /\ out'.resp.data.token.role = store[id].role
        /\ (out'.req.op = "login" /\ out'.resp.status = 200)
           => IssuesToken(out')]_vars

\* a login succeeded on an account whose stored role an update had changed
C7_Witness ==
  /\ out.req.op = "login" /\ out.resp.status = 200
  /\ out.resp.data.token.role = "admin"
  /\ \E id \in QueryByEmail(out.req.email) :
       /\ out.resp.data.token.sub = id
       /\ store[id].role = "admin"

(* ---- C8 ---- *)

\* C8: a login is over in one step whose only call is the store query by
\* email; it writes nothing to the store and leaves the cache alone.
C8_LoginOnlyReads ==
  [][Made("login")
     => /\ pc' = pc
        /\ out'.req.op = "login"
        /\ out'.calls = <<"store.query">>
        /\ store' = store /\ nextId' = nextId
        /\ cache' = cache /\ filled' = filled]_vars

\* a login, failed or not, went by while the cache was warm
C8_Witness ==
  /\ out.req.op = "login" /\ out.resp.status \in {200, 401}
  /\ out.calls = <<"store.query">>
  /\ cache.present

(* ---- C9 ---- *)

NonInvalidatingOps == {"createUser", "updateUserById", "changePassword"}

\* C9: no step of a createUser, updateUserById or changePassword changes the
\* cache entry, and none of their calls is a cache call.
C9_WritesLeaveCache ==
  [][\A o \in NonInvalidatingOps :
       /\ \A p \in Procs : Stepped(p, o) => cache' = cache /\ filled' = filled
       /\ (Completed /\ out'.req.op = o)
          => \A c \in CallsOf(out') : ~IsCacheCall(c)]_vars

\* an account was created while the cache was warm, and the cached listing
\* does not show it
C9_Witness ==
  /\ out.req.op = "createUser" /\ out.resp.status = 201
  /\ cache.present
  /\ \E i \in DOMAIN store :
       /\ store[i].email = out.req.userData.email
       /\ i \notin ListedIds(JSONparse(cache.value))

(* ---- C10 ---- *)

\* C10: a deleteUserById that returns 200 issued the existence check, the
\* store delete and the invalidation in that order; its store-delete step,
\* faulting or not, leaves the cache alone; the one step of it that changes
\* the cache comes with the document gone and ends the request with 200.
C10_DeleteOrder ==
  [][/\ (Completed /\ out'.req.op = "deleteUserById"
           /\ out'.resp.status = 200)
        => out'.calls = <<"store.get", "store.delete", "cache.del">>
     /\ \A p \in Procs :
          Stepped(p, "deleteUserById")
          => /\ pc[p] = "de_delete"
                => /\ cache' = cache /\ filled' = filled
                   /\ pc'[p] = "idle"
                      => /\ out'.resp = Thrown
                         /\ "cache.del" \notin CallsOf(out')
                         /\ store' = store
             /\ cache' # cache
                => /\ pc[p] = "de_cachedel"
                   /\ "store.delete" \in CallsOf([calls |-> calls[p]])
                   /\ req[p].userId \notin DOMAIN store
                   /\ pc'[p] = "idle"
                   /\ out'.resp.status = 200]_vars

\* a delete of a listed account went through and the warm cache is gone
C10_Witness ==
  /\ out.req.op = "deleteUserById" /\ out.resp.status = 200
  /\ out.calls = <<"store.get", "store.delete", "cache.del">>
  /\ hist.k = "listedDeleted" /\ hist.id = out.req.userId
  /\ ~cache.present
  /\ out.req.userId \notin DOMAIN store

(* ---- C11 ---- *)

\* the fields createUser sets itself, whatever the payload says
SetByCreate == {"password", "role", "createdAt", "updatedAt"}

\* C11: with no overlapping requests, a getUserById of the account a
\* createUser has just created returns every supplied field other than the
\* password as supplied, the role 'member' whatever role was supplied, both
\* timestamps equal to the time the creating write was made, and no
\* password (the read answering).
C11_CreateReadRoundTrip ==
  [][(/\ Completed
      /\ hist.k = "created"
      /\ out'.req.op = "getUserById" /\ out'.req.userId = hist.id
      /\ out'.resp # Thrown)
     => LET d == out'.resp.data
        IN /\ out'.resp.status = 200
           /\ d.id = hist.id
           /\ \A f \in (DOMAIN hist.userData) \ SetByCreate :
                f \in DOMAIN d /\ d[f] = hist.userData[f]
           /\ d.role = "member"
           /\ d.createdAt = hist.at /\ d.updatedAt = hist.at
           /\ "password" \notin DOMAIN d]_vars

\* an account created with a role of the caller's was read back as a member
C11_Witness ==
  /\ hist.k = "createdRead"
  /\ out.req.op = "getUserById" /\ out.req.userId = hist.id
  /\ "role" \in DOMAIN hist.userData /\ hist.userData.role = "admin"
  /\ out.resp.data.role = "member"
  /\ out.resp.data.email = hist.userData.email
  /\ out.resp.data.createdAt = hist.at

(* ---- C12 ---- *)

\* slot p's write of an account went through in this step: the identifier
\* of the account written, 0 when the step is no such write
Written(p) ==
  IF pc[p] = "cr_set" /\ pc'[p] = "idle" /\ nextId' # nextId THEN nextId
  ELSE IF pc[p] = "up_update" /\ pc'[p] = "up_reget" THEN req[p].userId
  ELSE IF pc[p] = "cp_update" /\ pc'[p] = "idle" /\ out'.resp.status = 200
  THEN req[p].userId
  ELSE 0

\* the awaits a request is suspended at with a write pending
WriteLabels == {"cr_set", "up_update", "cp_update"}

\* C12: every write of an account (the set of createUser, the update of
\* updateUserById and of changePassword on an existing account) carries an
\* updatedAt read from the timestamp source as the write is made, whatever
\* updatedAt the payload of the update names: the document handed to the
\* write has the time of that moment, it is not touched while the write is
\* pending, the write leaves it on the account, and no step changes an
\* account otherwise.
C12_WritesRefreshUpdatedAt ==
  [][/\ \A p \in Procs :
         /\ (pc[p] = "idle" /\ pc'[p] \in WriteLabels)
              => arg'[p].updatedAt = clock
         /\ (pc[p] \in WriteLabels /\ pc'[p] = pc[p]) => arg'[p] = arg[p]
         /\ Written(p) # 0 => /\ Written(p) \in DOMAIN store'
                              /\ store'[Written(p)].updatedAt
                                   = arg[p].updatedAt
     /\ \A i \in DOMAIN store' :
         (i \notin DOMAIN store \/ store'[i] # store[i])
           => \E p \in Procs : Written(p) = i]_vars

\* an update whose payload names an updatedAt of its own went through at a
\* later time, and the account it returns carries the time of the write
C12_Witness ==
  /\ out.req.op = "updateUserById" /\ out.resp.status = 200
  /\ "updatedAt" \in DOMAIN out.req.userData
  /\ out.req.userData.updatedAt # clock
  /\ out.resp.data.updatedAt = clock
  /\ out.resp.data.createdAt # clock

(* ---- C13 ---- *)

\* C13: a createUser that has passed its existence query writes whatever
\* the store holds by then: its set answers 201 and adds one account with
\* its email to those already stored, so that of two requests for one email
\* that both queried before either wrote, both answer 201 and two accounts
\* with the email persist.
C13_WriteAfterCheckIsUnconditional ==
  [][\A p \in Procs :
       (pc[p] = "cr_set" /\ pc'[p] = "idle" /\ out'.resp # Thrown)
         => /\ out'.resp.status = 201
            /\ AccountsAfter(req[p].userData.email)
                 = Cardinality(QueryByEmail(req[p].userData.email)) + 1]_vars

\* two requests for one email have both answered 201, the second while the
\* account of the first was already stored, and two accounts share the email
C13_Witness ==
  /\ hist.k = "createdAgain"
  /\ out.req.op = "createUser" /\ out.resp.status = 201
  /\ out.req.userData.email = hist.email
  /\ Cardinality(QueryByEmail(hist.email)) = 2

(* ---- C14 ---- *)

\* the public projection of the stored account i: every field of the
\* document but the password, and its identifier unless the document has a
\* field id of its own
PublicOf(i) ==
  [k \in ((DOMAIN store[i]) \ {"password"}) \cup {"id"} |->
     IF k \in DOMAIN store[i] THEN store[i][k] ELSE i]

\* listing l holds the public projection of every stored account, once each
ProjectsStore(l) ==
  /\ Len(l) = Cardinality(DOMAIN store)
  /\ {l[j] : j \in 1..Len(l)} = {PublicOf(i) : i \in DOMAIN store}

\* C14: a getUsers that finds no entry under the key (never written,
\* expired or wiped; the cache read answering) goes on to read the store;
\* the listing it reads is the public projection of every account stored at
\* that read; it writes that listing to the cache with an expiry 3600
\* seconds ahead and returns it.
C14_MissReadsProjectsAndFills ==
  [][/\ (Made("getUsers") /\ ~cache.present /\ out'.resp # Thrown)
         => \E q \in Procs : pc[q] = "idle" /\ pc'[q] = "gu_storeget"
     /\ \A p \in Procs :
         /\ (pc[p] = "gu_storeget" /\ pc'[p] = "gu_cacheset")
              => ProjectsStore(users'[p])
         /\ (pc[p] = "gu_cacheset" /\ pc'[p] = "gu_cacheset")
              => users'[p] = users[p]
         /\ (pc[p] = "gu_cacheset" /\ pc'[p] = "idle" /\ out'.resp # Thrown)
              => /\ out'.resp.status = 200
                 /\ out'.resp.data = users[p]
                 /\ cache'.present
                 /\ JSONparse(cache'.value) = users[p]
                 /\ cache'.expiresAt = clock + 3600]_vars

\* after the entry has expired, a getUsers has missed, read a store that
\* holds accounts, filled the cache and returned the listing
C14_Witness ==
  /\ out.req.op = "getUsers" /\ out.resp.status = 200
  /\ out.calls = <<"cache.get", "store.get", "cache.set">>
  /\ clock > 0
  /\ Len(out.resp.data) > 0
  /\ cache.present /\ JSONparse(cache.value) = out.resp.data
  /\ cache.expiresAt = clock + TTL

(* ---- C15 ---- *)

\* C15: a getUsers that has missed does its own store read and its own
\* cache write whatever other requests do meanwhile (it answers after the
\* three calls, or not at all); its cache write replaces whatever entry is
\* there by the listing it read; the listing it holds between its read and
\* its write is the projection of the store at its read; and the cache
\* entry changes in no other way than by such a write or by going away, so
\* that an entry that is present always holds the listing of some getUsers
\* store read.
C15_CacheHoldsSomeStoreRead ==
  [][/\ (Completed /\ out'.req.op = "getUsers" /\ out'.resp.status = 200)
        => \/ out'.calls = <<"cache.get">> /\ cache.present
           \/ out'.calls = <<"cache.get", "store.get", "cache.set">>
     /\ \A p \in Procs :
         /\ (pc[p] = "gu_storeget" /\ pc'[p] # pc[p] /\ out' = NoOut)
              => pc'[p] = "gu_cacheset" /\ users'[p] = Listing
         /\ (pc[p] = "gu_cacheset" /\ pc'[p] = pc[p])
              => users'[p] = users[p]
         /\ (pc[p] = "gu_cacheset" /\ pc'[p] = "idle" /\ out'.resp # Thrown)
              => cache'.present /\ JSONparse(cache'.value) = users[p]
     /\ (cache' # cache /\ cache'.present)
        => \E p \in Procs : /\ pc[p] = "gu_cacheset" /\ pc'[p] = "idle"
                            /\ JSONparse(cache'.value) = users[p]
     /\ cache'.present
        => filled'.valid /\ JSONparse(cache'.value) = filled'.listing]_vars

\* two getUsers missed together and read different store contents: one has
\* just written its listing over the entry, the other still holds a
\* different listing that it will write next
C15_Witness ==
  /\ out.req.op = "getUsers" /\ out.resp.status = 200
  /\ out.calls = <<"cache.get", "store.get", "cache.set">>
  /\ cache.present /\ JSONparse(cache.value) = out.resp.data
  /\ \E q \in Procs : /\ pc[q] = "gu_cacheset"
                      /\ users[q] # out.resp.data

(* ---- C16 ---- *)

CachedIds == IF cache.present THEN ListedIds(JSONparse(cache.value)) ELSE {}

\* C16: every listing getUsers returns equals the projection of the store
\* at some moment no more than 3600 seconds before the return.  An account
\* whose creation was done more than 3600 seconds before the return and
\* that is still stored was stored at every such moment, so it is in the
\* listing.
C16_ListingWithinTheHour ==
  [][(/\ Completed
      /\ out'.req.op = "getUsers" /\ out'.resp.status = 200
      /\ hist.k = "created"
      /\ hist.done + TTL < clock
      /\ hist.id \in DOMAIN store)
       => hist.id \in ListedIds(out'.resp.data)]_vars

\* C16, amended: a listing returned on a miss is the listing the request
\* read from the store, a listing returned on a hit is the entry of the
\* cache, written by a getUsers from the listing it had read; the entry is
\* served for less than 3600 seconds counted from its write; the time from
\* the store read to the cache write counts for nothing, and no step but
\* the write sets the expiry.
C16_FreshFromTheCacheWrite ==
  [][/\ (Completed /\ out'.req.op = "getUsers" /\ out'.resp.status = 200)
        => IF out'.calls = <<"cache.get">>
           THEN /\ cache.present
                /\ out'.resp.data = JSONparse(cache.value)
                /\ out'.resp.data = filled.listing
                /\ clock < cache.expiresAt
           ELSE \E p \in Procs : /\ pc[p] = "gu_cacheset" /\ pc'[p] = "idle"
                                 /\ out'.resp.data = users[p]
                                 /\ cache'.expiresAt = clock + TTL
     /\ (cache.present /\ cache'.present /\ cache'.expiresAt # cache.expiresAt)
        => \E p \in Procs : pc[p] = "gu_cacheset" /\ pc'[p] = "idle"
     /\ cache'.present => cache'.expiresAt <= clock' + TTL]_vars

\* a getUsers that read the store, stalled for more than the expiry and
\* then filled the cache returned a listing without an account that had
\* been stored for more than 3600 seconds, and the cache now serves it
C16_Witness ==
  /\ out.req.op = "getUsers" /\ out.resp.status = 200
  /\ out.calls = <<"cache.get", "store.get", "cache.set">>
  /\ hist.k = "createdListed"
  /\ hist.done + TTL < clock
  /\ hist.id \in DOMAIN store
  /\ hist.id \notin ListedIds(out.resp.data)
  /\ hist.id \notin CachedIds
  /\ cache.present /\ cache.expiresAt = clock + TTL

(* ---- C17 ---- *)

\* the account whose deletion has returned 200, as far as the completed
\* requests kept track of tell; 0 when they tell of none
DeletedId ==
  IF hist.k \in {"deleted", "deletedListed", "listedDeleted",
                 "listedDeletedListed"}
  THEN hist.id ELSE 0

\* account i was handed out and is in the store no longer
Gone(i) == i < nextId /\ i \notin DOMAIN store

\* C17: once a deleteUserById has returned 200 for an account, the cache
\* never holds a listing that contains the account, and a getUsers made
\* afterwards and served from the cache returns no listing that contains it.
C17_DeletedNeverListedAgain ==
  [][DeletedId # 0
       => /\ DeletedId \notin CachedIds'
          /\ (Made("getUsers") /\ Completed /\ out'.resp.status = 200)
               => DeletedId \notin ListedIds(out'.resp.data)]_vars

\* C17, amended: a deleteUserById that returns 200 leaves the account out of
\* the store and the cache without an entry, and an account out of the
\* store stays out; a getUsers store read made from then on does not list
\* it; the cache comes to hold it again only by the cache write of a
\* getUsers that had read it from the store before the delete, and a
\* getUsers returns it only as that request or from the entry it wrote.
C17_StaleOnlyByLateFill ==
  [][/\ (Completed /\ out'.req.op = "deleteUserById"
           /\ out'.resp.status = 200)
        => ~cache'.present /\ out'.req.userId \notin DOMAIN store'
     /\ \A i \in 1..MaxIds + MaxOps :
         Gone(i)
           => /\ i \notin DOMAIN store'
              /\ \A p \in Procs :
                   (pc[p] = "gu_storeget" /\ pc'[p] = "gu_cacheset")
                     => i \notin ListedIds(users'[p])
              /\ (i \notin CachedIds /\ i \in CachedIds')
                   => \E p \in Procs : /\ pc[p] = "gu_cacheset"
                                       /\ pc'[p] = "idle"
                                       /\ i \in ListedIds(users[p])
              /\ (/\ Completed
                  /\ out'.req.op = "getUsers" /\ out'.resp.status = 200
                  /\ i \in ListedIds(out'.resp.data))
                   => \/ out'.calls = <<"cache.get">> /\ i \in CachedIds
                      \/ \E p \in Procs : /\ pc[p] = "gu_cacheset"
                                          /\ pc'[p] = "idle"
                                          /\ i \in ListedIds(users[p])]_vars

\* a getUsers that had read the store before a delete has written the cache
\* after the delete returned 200: it returned the deleted account, and the
\* cache holds a listing with it
C17_Witness ==
  /\ hist.k \in {"deletedListed", "listedDeletedListed"}
  /\ out.req.op = "getUsers" /\ out.resp.status = 200
  /\ hist.id \in ListedIds(out.resp.data)
  /\ hist.id \in CachedIds
  /\ hist.id \notin DOMAIN store

(* ---- C18 ---- *)

\* C18: with no overlapping requests, whatever createUser, updateUserById,
\* changePassword and deleteUserById calls have been made, no two stored
\* accounts have the same email.
C18_EmailsUnique ==
  \A i, j \in DOMAIN store : i # j => store[i].email # store[j].email

(* ---- C19 ---- *)

\* C19: for any account at most one deleteUserById ever returns 200: of two
\* deleteUserById requests that return 200 one after the other, the second
\* is not for the account of the first.
C19_OneDeletePerAccount ==
  [][(/\ Completed
      /\ hist.k \in {"deleted", "listedDeleted"}
      /\ out'.req.op = "deleteUserById" /\ out'.resp.status = 200)
     => out'.req.userId # hist.id]_vars

====
